---- MODULE Spec2Model ----
(***************************************************************************)
(* Model of learning_decision.py: the Streamlit page main(), the decision  *)
(* procedure analyze_learning_path() and the score lookup                  *)
(* calculate_expected_effectiveness().                                     *)
(*                                                                         *)
(* Strings of the source are Chinese; TLA+ strings are ASCII, so every     *)
(* Chinese character is written as one token (its pinyin) and a string of  *)
(* the source is a sequence of such tokens.  The option values of the      *)
(* select boxes are written with the English names of the specification.   *)
(***************************************************************************)
EXTENDS Integers, Sequences, FiniteSets, TLC

(***************************************************************************)
(* Natural numbers of arbitrary size, as little-endian sequences of limbs  *)
(* in base 2^LimbBits without leading zero limbs (<<>> is 0).  They carry  *)
(* the 53-bit significands of the float64 arithmetic that computes the     *)
(* confidence.                                                             *)
(***************************************************************************)
LimbBits == 15

Base == 2^LimbBits

RECURSIVE Strip(_)
Strip(a) ==
    IF a = <<>> THEN <<>>
    ELSE IF a[Len(a)] = 0 THEN Strip(SubSeq(a, 1, Len(a) - 1))
    ELSE a

RECURSIVE NatToLimbs(_)
NatToLimbs(n) == IF n = 0 THEN <<>> ELSE <<n % Base>> \o NatToLimbs(n \div Base)

RECURSIVE LimbsToNat(_)
LimbsToNat(a) == IF a = <<>> THEN 0 ELSE a[1] + Base * LimbsToNat(Tail(a))

RECURSIVE Zeros(_)
Zeros(n) == IF n = 0 THEN <<>> ELSE <<0>> \o Zeros(n - 1)

LimbAt(a, i) == IF i <= Len(a) THEN a[i] ELSE 0

RECURSIVE AddFrom(_, _, _, _)
AddFrom(a, b, i, carry) ==
    IF i > Len(a) /\ i > Len(b)
    THEN IF carry = 0 THEN <<>> ELSE <<carry>>
    ELSE LET t == LimbAt(a, i) + LimbAt(b, i) + carry
         IN  <<t % Base>> \o AddFrom(a, b, i + 1, t \div Base)

AddBig(a, b) == AddFrom(a, b, 1, 0)

RECURSIVE MulSmallFrom(_, _, _, _)
MulSmallFrom(a, k, i, carry) ==
    IF i > Len(a)
    THEN IF carry = 0 THEN <<>> ELSE <<carry>>
    ELSE LET t == a[i] * k + carry
         IN  <<t % Base>> \o MulSmallFrom(a, k, i + 1, t \div Base)

(* a * k for a single limb k. *)
MulSmall(a, k) == IF k = 0 THEN <<>> ELSE MulSmallFrom(a, k, 1, 0)

RECURSIVE MulBig(_, _)
MulBig(a, b) ==
    IF a = <<>> \/ b = <<>> THEN <<>>
    ELSE LET rest == MulBig(a, Tail(b))
         IN  AddBig(MulSmall(a, b[1]), IF rest = <<>> THEN <<>> ELSE <<0>> \o rest)

(* Long division of a by the single limb n > 0, from the top limb down.    *)
RECURSIVE DivFrom(_, _, _, _)
DivFrom(a, n, i, rem) ==
    IF i = 0 THEN [q |-> <<>>, r |-> rem]
    ELSE LET t    == rem * Base + a[i]
             rest == DivFrom(a, n, i - 1, t % n)
         IN  [q |-> rest.q \o <<t \div n>>, r |-> rest.r]

DivModSmall(a, n) ==
    LET d == DivFrom(a, n, Len(a), 0) IN [q |-> Strip(d.q), r |-> d.r]

BitLenSmall(x) == CHOOSE k \in 0..LimbBits : x < 2^k /\ (k = 0 \/ x >= 2^(k - 1))

BitLen(a) ==
    IF a = <<>> THEN 0 ELSE LimbBits * (Len(a) - 1) + BitLenSmall(a[Len(a)])

ShiftLeft(a, s) ==
    IF a = <<>> THEN <<>>
    ELSE Zeros(s \div LimbBits) \o MulSmall(a, 2^(s % LimbBits))

ShiftRight(a, s) ==
    IF s \div LimbBits >= Len(a) THEN <<>>
    ELSE DivModSmall(SubSeq(a, (s \div LimbBits) + 1, Len(a)), 2^(s % LimbBits)).q

IsOdd(a) == a # <<>> /\ a[1] % 2 = 1

(***************************************************************************)
(* IEEE-754 binary64, non-negative finite values: [m, e] is m * 2^e with   *)
(* a significand m of MantBits bits (top bit set), or zero.  Every         *)
(* operation rounds its exact result to nearest, ties to even.             *)
(***************************************************************************)
MantBits == 53

FloatZero == [m |-> <<>>, e |-> 0]

(* The float64 nearest to (N + f) * 2^e, where 0 <= f < 1 and sticky says  *)
(* whether f > 0.                                                          *)
(* Round to nearest, ties to even: q is N without its low s bits, g is N   *)
(* without its low s - 1 bits (its last bit is the guard bit).             *)
RoundUp(q, g, N, s, sticky) ==
    IF IsOdd(g) /\ (sticky \/ ShiftLeft(g, s - 1) # N \/ IsOdd(q))
    THEN AddBig(q, <<1>>)
    ELSE q

(* Rounding up may carry into one more bit. *)
Renormalize(q, e) ==
    IF BitLen(q) > MantBits THEN [m |-> ShiftRight(q, 1), e |-> e + 1]
    ELSE [m |-> q, e |-> e]

RoundOff(N, e, sticky, s) ==
    Renormalize(RoundUp(ShiftRight(N, s), ShiftRight(N, s - 1), N, s, sticky), e + s)

RoundToFloat(N, e, sticky) ==
    IF N = <<>> THEN FloatZero
    ELSE IF BitLen(N) <= MantBits
    THEN [m |-> ShiftLeft(N, MantBits - BitLen(N)), e |-> e - (MantBits - BitLen(N))]
    ELSE RoundOff(N, e, sticky, BitLen(N) - MantBits)

FloatFromInt(n) == RoundToFloat(NatToLimbs(n), 0, FALSE)

Min(x, y) == IF x <= y THEN x ELSE y

FloatAdd(a, b) ==
    IF a.m = <<>> THEN b
    ELSE IF b.m = <<>> THEN a
    ELSE LET lo == Min(a.e, b.e)
         IN  RoundToFloat(AddBig(ShiftLeft(a.m, a.e - lo), ShiftLeft(b.m, b.e - lo)),
                          lo, FALSE)

FloatMul(a, b) == RoundToFloat(MulBig(a.m, b.m), a.e + b.e, FALSE)

(* a / n for an integer n, 0 < n < Base / 4: the quotient is carried two   *)
(* bits beyond the significand and the remainder is the sticky bit.        *)
FloatDivInt(a, n) ==
    IF a.m = <<>> THEN FloatZero
    ELSE LET k == BitLenSmall(n) + 2
             d == DivModSmall(ShiftLeft(a.m, k), n)
         IN  RoundToFloat(d.q, a.e - k, d.r # 0)

(* int(x): truncation toward zero. *)
FloatToInt(a) ==
    IF a.m = <<>> THEN 0
    ELSE IF a.e >= 0 THEN LimbsToNat(ShiftLeft(a.m, a.e))
    ELSE LimbsToNat(ShiftRight(a.m, 0 - a.e))

(* The float literal 0.d : the float64 nearest to d/10. *)
Tenths(d) == FloatDivInt(FloatFromInt(d), 10)

(***************************************************************************)
(* The option lists of the widgets of main().                              *)
(*   1小时以下 "lt1h"   1-2小时 "1-2h"   2-4小时 "2-4h"   4小时以上 "gt4h" *)
(*   零基础 "none"   初级 "beginner"   中级 "intermediate"   高级 "advanced" *)
(*   宽松 "relaxed"   中等 "moderate"   紧急 "urgent"                      *)
(*   视觉型 "visual"  听觉型 "auditory"  动手型 "hands-on"  阅读型 "reading" *)
(***************************************************************************)
TimeOptions == <<"lt1h", "1-2h", "2-4h", "gt4h">>

LevelOptions == <<"none", "beginner", "intermediate", "advanced">>

UrgencyOptions == <<"relaxed", "moderate", "urgent">>

StyleOptions == <<"visual", "auditory", "hands-on", "reading">>

BudgetMin == 0

BudgetMax == 2000

BudgetDefault == 500

Range(f) == {f[i] : i \in DOMAIN f}

(***************************************************************************)
(* Strings of the source as sequences of character tokens.                 *)
(***************************************************************************)
WeiXueXi == <<"wei", "xue", "xi2">>               \* 微学习

XiTongXueXi == <<"xi4", "tong", "xue", "xi2">>    \* 系统学习

QiangHuaXunLian == <<"qiang", "hua", "xun", "lian">>   \* 强化训练

FenCengJiaoXue == <<"fen", "ceng", "jiao", "xue">>     \* 分层教学

XiangMuShiJian == <<"xiang", "mu", "shi", "jian">>     \* 项目实践

MianFeiZiYuan == <<"mian", "fei", "zi", "yuan">>       \* 免费资源

FuFeiKeCheng == <<"fu", "fei", "ke", "cheng">>         \* 付费课程

DingZhiFangAn == <<"ding", "zhi", "fang", "an">>       \* 定制方案

Separator == <<" ", "+", " ">>                         \* " + "

(***************************************************************************)
(* analyze_learning_path: the five rules in the order the code runs them.  *)
(* A rule returns the explanation it appends, the method it selects and    *)
(* the score it appends.  Every score is a float literal 0.d of the        *)
(* source, written as its digit d; Tenths(d) is its float64 value.         *)
(***************************************************************************)
TimeRule(time) ==
    IF time \in {"lt1h", "1-2h"}
    THEN [reason |-> [factor |-> "time", text |-> "limited time, fragmented learning"],
          method |-> WeiXueXi, score |-> 7]
    ELSE [reason |-> [factor |-> "time", text |-> "ample time, systematic deep learning"],
          method |-> XiTongXueXi, score |-> 9]

KnowledgeRule(level) ==
    IF level \in {"none", "beginner"}
    THEN [reason |-> [factor |-> "knowledge", text |-> "weak basis, layered teaching"],
          method |-> FenCengJiaoXue, score |-> 6]
    ELSE [reason |-> [factor |-> "knowledge", text |-> "solid basis, project-driven learning"],
          method |-> XiangMuShiJian, score |-> 8]

FreeLimit == 300

PaidLimit == 1000

(* Variant: the free tier takes the boundary (budget <= 300). *)
BudgetRule_InclusiveFree(b) ==
    IF b <= FreeLimit
    THEN [reason |-> [factor |-> "budget", text |-> "limited budget, free resources"],
          method |-> MianFeiZiYuan, score |-> 5]
    ELSE IF b < PaidLimit
    THEN [reason |-> [factor |-> "budget", text |-> "moderate budget, paid courses"],
          method |-> FuFeiKeCheng, score |-> 7]
    ELSE [reason |-> [factor |-> "budget", text |-> "ample budget, custom plan"],
          method |-> DingZhiFangAn, score |-> 9]

BudgetRule(b) ==
    IF b < FreeLimit
    THEN [reason |-> [factor |-> "budget", text |-> "limited budget, free resources"],
          method |-> MianFeiZiYuan, score |-> 5]
    ELSE IF b < PaidLimit
    THEN [reason |-> [factor |-> "budget", text |-> "moderate budget, paid courses"],
          method |-> FuFeiKeCheng, score |-> 7]
    ELSE [reason |-> [factor |-> "budget", text |-> "ample budget, custom plan"],
          method |-> DingZhiFangAn, score |-> 9]

style_adaptations ==
    [s \in Range(StyleOptions) |->
        CASE s = "visual"   -> "+ pictures and videos"
          [] s = "auditory" -> "+ audio courses and podcasts"
          [] s = "hands-on" -> "+ practice projects"
          [] s = "reading"  -> "+ e-books and documents"]

(* style_adaptations[style] raises KeyError for a key the dict lacks; the  *)
(* f-string of the explanation embeds the style.                           *)
StyleRule(style) ==
    IF style \in DOMAIN style_adaptations
    THEN [raised |-> "none", style_adapt |-> style_adaptations[style],
          reason |-> [factor |-> "style", text |-> style]]
    ELSE [raised |-> "KeyError"]

(* Variant: the urgent branch leaves the base method as the time rule set  *)
(* it.                                                                     *)
UrgencyRule_KeepsBase(urg, base_method, reasoning_, scores_) ==
    IF urg = "urgent"
    THEN [reasoning   |-> Append(reasoning_,
                                 [factor |-> "urgency", text |-> "urgent goal, intensive training"]),
          base_method |-> base_method,
          scores      |-> Append(scores_, 8)]
    ELSE [reasoning   |-> reasoning_,
          base_method |-> base_method,
          scores      |-> Append(scores_, 6)]

(* Variant: the else branch appends no score, as it appends no reason.     *)
UrgencyRule_NoScoreUnlessUrgent(urg, base_method, reasoning_, scores_) ==
    IF urg = "urgent"
    THEN [reasoning   |-> Append(reasoning_,
                                 [factor |-> "urgency", text |-> "urgent goal, intensive training"]),
          base_method |-> QiangHuaXunLian,
          scores      |-> Append(scores_, 8)]
    ELSE [reasoning   |-> reasoning_,
          base_method |-> base_method,
          scores      |-> scores_]

(* The urgency rule works on the locals built so far.                      *)
UrgencyRule(urg, base_method, reasoning_, scores_) ==
    IF urg = "urgent"
    THEN [reasoning   |-> Append(reasoning_,
                                 [factor |-> "urgency", text |-> "urgent goal, intensive training"]),
          base_method |-> QiangHuaXunLian,
          scores      |-> Append(scores_, 8)]
    ELSE [reasoning   |-> reasoning_,
          base_method |-> base_method,
          scores      |-> Append(scores_, 6)]

(* Variant: the style adaptation, which the code computes and drops, is    *)
(* appended to the label.                                                  *)
Recommendation_WithStyle(base_method, knowledge_method, budget_method, style_adapt) ==
    base_method \o Separator \o knowledge_method \o Separator \o budget_method
        \o <<" ", style_adapt>>

(* f"{base_method} + {knowledge_method} + {budget_method}" *)
Recommendation(base_method, knowledge_method, budget_method, style_adapt) ==
    base_method \o Separator \o knowledge_method \o Separator \o budget_method

(* np.mean of a list of floats: the float64 sum, accumulated from 0.0 in   *)
(* list order, divided by the number of elements.                          *)
RECURSIVE NpSum(_, _)
NpSum(s, acc) ==
    IF s = <<>> THEN acc ELSE NpSum(Tail(s), FloatAdd(acc, Tenths(Head(s))))

(* Variant: the sum is not divided by the number of scores. *)
NpMean_Sum(s) == NpSum(s, FloatZero)

NpMean(s) == FloatDivInt(NpSum(s, FloatZero), Len(s))

Percent == 100

(* int(np.mean(scores) * 100) *)
Confidence(scores_) == FloatToInt(FloatMul(NpMean(scores_), FloatFromInt(Percent)))

analyze_learning_path(time, level, b, urg, style) ==
    LET t == TimeRule(time)
        k == KnowledgeRule(level)
        m == BudgetRule(b)
        s == StyleRule(style)
    IN  IF s.raised # "none" THEN [raised |-> s.raised]
        ELSE LET u == UrgencyRule(urg, t.method,
                                  <<t.reason, k.reason, m.reason, s.reason>>,
                                  <<t.score, k.score, m.score>>)
             IN  [raised         |-> "none",
                  recommendation |-> Recommendation(u.base_method, k.method, m.method,
                                                    s.style_adapt),
                  confidence     |-> Confidence(u.scores),
                  reasoning      |-> u.reasoning,
                  scores         |-> u.scores]

(***************************************************************************)
(* calculate_expected_effectiveness: the dict in insertion order, and the  *)
(* loop over its keys with Python's substring test `key in method`.        *)
(***************************************************************************)
effectiveness_scores ==
    << [key |-> WeiXueXi,        score |-> 70],
       [key |-> XiTongXueXi,     score |-> 85],
       [key |-> QiangHuaXunLian, score |-> 90],
       [key |-> FenCengJiaoXue,  score |-> 80],
       [key |-> XiangMuShiJian,  score |-> 85],
       [key |-> MianFeiZiYuan,   score |-> 65],
       [key |-> FuFeiKeCheng,    score |-> 80],
       [key |-> DingZhiFangAn,   score |-> 90] >>

DefaultEffectiveness == 70

(* key in method *)
In(key, method) ==
    \E i \in 1..(Len(method) - Len(key) + 1) : SubSeq(method, i, i + Len(key) - 1) = key

Max(x, y) == IF x >= y THEN x ELSE y

(* Variant: the last matching key wins (score = table[key], no max). *)
EffectivenessStep_LastMatch(score, i, method) ==
    IF In(effectiveness_scores[i].key, method)
    THEN effectiveness_scores[i].score
    ELSE score

(* One iteration of the loop body for the i-th key. *)
EffectivenessStep(score, i, method) ==
    IF In(effectiveness_scores[i].key, method)
    THEN Max(score, effectiveness_scores[i].score)
    ELSE score

RECURSIVE EffectivenessLoop(_, _, _)
EffectivenessLoop(score, i, method) ==
    IF i > Len(effectiveness_scores) THEN score
    ELSE EffectivenessLoop(EffectivenessStep(score, i, method), i + 1, method)

(* Variant: the label is looked up as a whole (dict.get(method, 70)). *)
calculate_expected_effectiveness_ExactMatch(method) ==
    IF \E i \in DOMAIN effectiveness_scores : effectiveness_scores[i].key = method
    THEN effectiveness_scores[CHOOSE i \in DOMAIN effectiveness_scores :
                                 effectiveness_scores[i].key = method].score
    ELSE DefaultEffectiveness

calculate_expected_effectiveness(method) ==
    EffectivenessLoop(DefaultEffectiveness, 1, method)

(* get_style_analysis: analyses.get(style, default) *)
get_style_analysis(style) ==
    CASE style = "visual"   -> "videos, charts, mind maps"
      [] style = "auditory" -> "audio courses, podcasts, recordings"
      [] style = "hands-on" -> "programming practice, projects, experiments"
      [] style = "reading"  -> "documents, e-books, articles"
      [] OTHER              -> "learning style analysis"

(***************************************************************************)
(* State.  The five widget values of main(), the values main() shows, the  *)
(* locals of analyze_learning_path that outlive the call (scores), the     *)
(* exception a call ended with, and the position in the script.  prev      *)
(* holds the inputs and results of the script run before the current one   *)
(* (Streamlit reruns the script whenever a widget changes).                *)
(***************************************************************************)
VARIABLES time_available, knowledge_level, budget, urgency, learning_style,
          recommendation, confidence, reasoning, scores, effectiveness,
          style_analysis, raised, pc, prev

inputs == <<time_available, knowledge_level, budget, urgency, learning_style>>

outputs == <<recommendation, confidence, reasoning, scores>>

vars == <<time_available, knowledge_level, budget, urgency, learning_style,
          recommendation, confidence, reasoning, scores, effectiveness,
          style_analysis, raised, pc, prev>>

(* Budgets the slider is moved to: its ends, its default, and the values   *)
(* within BudgetMargin of the two thresholds of the budget rule.           *)
BudgetMargin == 1

BudgetValues ==
    {BudgetMin, BudgetDefault, BudgetMax} \cup
    {b \in BudgetMin..BudgetMax :
        \E c \in {FreeLimit, PaidLimit} : b >= c - BudgetMargin /\ b <= c + BudgetMargin}

NoResults ==
    /\ recommendation = <<>>
    /\ confidence = 0
    /\ reasoning = <<>>
    /\ scores = <<>>
    /\ effectiveness = 0
    /\ style_analysis = ""
    /\ raised = "none"
    /\ prev = <<>>

(* The call at lines 32-34 / the function boundary: on return the results  *)
(* are bound, on an exception nothing is.                                  *)
Bind(r, returned, failed) ==
    IF r.raised = "none"
    THEN /\ recommendation' = r.recommendation
         /\ confidence' = r.confidence
         /\ reasoning' = r.reasoning
         /\ scores' = r.scores
         /\ pc' = returned
         /\ UNCHANGED raised
    ELSE /\ raised' = r.raised
         /\ pc' = failed
         /\ UNCHANGED outputs

DoAnalyze(returned, failed) ==
    Bind(analyze_learning_path(time_available, knowledge_level, budget, urgency,
                               learning_style),
         returned, failed)

(***************************************************************************)
(* Spec: the page.  main() runs top to bottom with the widgets' values; a  *)
(* widget change reruns it.                                                *)
(***************************************************************************)
Init ==
    /\ time_available = TimeOptions[1]
    /\ knowledge_level = LevelOptions[1]
    /\ budget = BudgetDefault
    /\ urgency = UrgencyOptions[1]
    /\ learning_style = StyleOptions[1]
    /\ NoResults
    /\ pc = "analyze"

Analyze ==
    /\ pc = "analyze"
    /\ DoAnalyze("effect", "raised")
    /\ UNCHANGED <<inputs, effectiveness, style_analysis, prev>>

Effectiveness ==
    /\ pc = "effect"
    /\ effectiveness' = calculate_expected_effectiveness(recommendation)
    /\ pc' = "report"
    /\ UNCHANGED <<inputs, outputs, style_analysis, raised, prev>>

ShowDetailedAnalysis ==
    /\ pc = "report"
    /\ style_analysis' = get_style_analysis(learning_style)
    /\ pc' = "shown"
    /\ UNCHANGED <<inputs, outputs, effectiveness, raised, prev>>

Snapshot ==
    [time_available |-> time_available, knowledge_level |-> knowledge_level,
     budget |-> budget, urgency |-> urgency, learning_style |-> learning_style,
     recommendation |-> recommendation, confidence |-> confidence,
     reasoning |-> reasoning, scores |-> scores]

Rerun ==
    /\ pc = "shown"
    /\ prev' = <<Snapshot>>
    /\ pc' = "analyze"
    /\ UNCHANGED <<outputs, effectiveness, style_analysis, raised>>

SelectTime ==
    /\ Rerun
    /\ \E v \in Range(TimeOptions) \ {time_available} : time_available' = v
    /\ UNCHANGED <<knowledge_level, budget, urgency, learning_style>>

SelectLevel ==
    /\ Rerun
    /\ \E v \in Range(LevelOptions) \ {knowledge_level} : knowledge_level' = v
    /\ UNCHANGED <<time_available, budget, urgency, learning_style>>

SlideBudget ==
    /\ Rerun
    /\ \E v \in BudgetValues \ {budget} : budget' = v
    /\ UNCHANGED <<time_available, knowledge_level, urgency, learning_style>>

SelectUrgency ==
    /\ Rerun
    /\ \E v \in Range(UrgencyOptions) \ {urgency} : urgency' = v
    /\ UNCHANGED <<time_available, knowledge_level, budget, learning_style>>

SelectStyle ==
    /\ Rerun
    /\ \E v \in Range(StyleOptions) \ {learning_style} : learning_style' = v
    /\ UNCHANGED <<time_available, knowledge_level, budget, urgency>>

Next ==
    \/ Analyze
    \/ Effectiveness
    \/ ShowDetailedAnalysis
    \/ SelectTime
    \/ SelectLevel
    \/ SlideBudget
    \/ SelectUrgency
    \/ SelectStyle

Spec == Init /\ [][Next]_vars

(***************************************************************************)
(* SpecCall: analyze_learning_path and get_style_analysis called at the    *)
(* function boundary, with any arguments, a style outside the option list  *)
(* ("other") included.                                                     *)
(***************************************************************************)
UnknownStyle == "other"

InitCall ==
    /\ time_available \in Range(TimeOptions)
    /\ knowledge_level \in Range(LevelOptions)
    /\ budget \in BudgetValues
    /\ urgency \in Range(UrgencyOptions)
    /\ learning_style \in Range(StyleOptions) \cup {UnknownStyle}
    /\ NoResults
    /\ pc = "call"

CallAnalyze ==
    /\ pc = "call"
    /\ DoAnalyze("returned", "raised")
    /\ UNCHANGED <<inputs, effectiveness, style_analysis, prev>>

CallGetStyleAnalysis ==
    /\ pc = "call"
    /\ style_analysis' = get_style_analysis(learning_style)
    /\ pc' = "described"
    /\ UNCHANGED <<inputs, outputs, effectiveness, raised, prev>>

NextCall == CallAnalyze \/ CallGetStyleAnalysis

SpecCall == InitCall /\ [][NextCall]_vars

(***************************************************************************)
(* SpecBudget: analyze_learning_path called with every budget of the       *)
(* slider, every time, level and urgency, and the default style.           *)
(***************************************************************************)
InitBudget ==
    /\ time_available \in Range(TimeOptions)
    /\ knowledge_level \in Range(LevelOptions)
    /\ budget \in BudgetMin..BudgetMax
    /\ urgency \in Range(UrgencyOptions)
    /\ learning_style = StyleOptions[1]
    /\ NoResults
    /\ pc = "call"

NextBudget == CallAnalyze

SpecBudget == InitBudget /\ [][NextBudget]_vars

(***************************************************************************)
(* SpecEffect: calculate_expected_effectiveness called with any label: a   *)
(* concatenation of at most MaxParts fragments, among them the table keys, *)
(* the separator, pieces of keys and a word outside the table.             *)
(***************************************************************************)
MaxParts == 3

Fragments ==
    {effectiveness_scores[i].key : i \in DOMAIN effectiveness_scores} \cup
    {Separator, <<"wei">>, <<"xue", "xi2">>, <<"xi4", "tong">>, <<"qi", "ta">>}

RECURSIVE Labels(_)
Labels(n) ==
    IF n = 0 THEN {<<>>}
    ELSE LET shorter == Labels(n - 1)
         IN  shorter \cup {l \o f : l \in shorter, f \in Fragments}

InitEffect ==
    /\ time_available = TimeOptions[1]
    /\ knowledge_level = LevelOptions[1]
    /\ budget = BudgetDefault
    /\ urgency = UrgencyOptions[1]
    /\ learning_style = StyleOptions[1]
    /\ recommendation \in Labels(MaxParts)
    /\ confidence = 0
    /\ reasoning = <<>>
    /\ scores = <<>>
    /\ effectiveness = 0
    /\ style_analysis = ""
    /\ raised = "none"
    /\ prev = <<>>
    /\ pc = "lookup"

CallEffectiveness ==
    /\ pc = "lookup"
    /\ effectiveness' = calculate_expected_effectiveness(recommendation)
    /\ pc' = "looked-up"
    /\ UNCHANGED <<inputs, outputs, style_analysis, raised, prev>>

NextEffect == CallEffectiveness

SpecEffect == InitEffect /\ [][NextEffect]_vars

(***************************************************************************)
(* Properties.                                                             *)
(***************************************************************************)
Styles == Range(StyleOptions)

Returned == pc = "returned"

(* The page has run analyze_learning_path for the current widget values.   *)
Analyzed == pc \in {"effect", "report", "shown"}

FactorsOf(r) == [i \in 1..Len(r) |-> r[i].factor]

RECURSIVE SumOf(_)
SumOf(s) == IF s = <<>> THEN 0 ELSE Head(s) + SumOf(Tail(s))

(* num / den rounded to the nearest integer, ties to the even one. *)
RoundHalfEven(num, den) ==
    LET q == num \div den
        r == num % den
    IN  IF 2 * r > den \/ (2 * r = den /\ q % 2 = 1) THEN q + 1 ELSE q

(* num / den rounded to the nearest integer, ties upward. *)
RoundHalfUp(num, den) == (2 * num + den) \div (2 * den)

BudgetTagOf(label) == SubSeq(label, Len(label) - 3, Len(label))

(* C1: analyze_learning_path called with a style outside the four styles   *)
(* (the other arguments in their domains) does not fail: it returns a      *)
(* (recommendation, confidence, reasoning) triple.                         *)
C1_UnknownStyleReturns ==
    (pc \in {"returned", "raised"} /\ learning_style \notin Styles)
        => (pc = "returned" /\ raised = "none" /\ recommendation # <<>>
            /\ reasoning # <<>>)

(* C2: for every in-domain input the returned confidence is an integer     *)
(* between 0 and 100.                                                      *)
C2_ConfidenceInRange ==
    (Returned /\ learning_style \in Styles) => confidence \in 0..100

C2_Witness ==
    /\ Returned
    /\ learning_style \in Styles
    /\ time_available = "gt4h" /\ knowledge_level = "advanced"
    /\ budget = BudgetMax /\ urgency = "urgent"
    /\ confidence = 85

(* C3: for every in-domain input the confidence is the arithmetic mean of  *)
(* the four collected scores times 100, rounded to the nearest integer     *)
(* (the mean of scores 0.d1 .. 0.d4 times 100 is 10 * (d1+..+d4) / 4; it   *)
(* is never a tie, so both tie rules give the same number); scores         *)
(* [0.9,0.8,0.9,0.6] give 80 and scores [0.7,0.6,0.5,0.8] give 65.         *)
C3_ConfidenceIsRoundedMean ==
    (Returned /\ learning_style \in Styles) =>
        /\ Len(scores) = 4
        /\ confidence = RoundHalfEven(10 * SumOf(scores), Len(scores))
        /\ confidence = RoundHalfUp(10 * SumOf(scores), Len(scores))
        /\ (scores = <<9, 8, 9, 6>> => confidence = 80)
        /\ (scores = <<7, 6, 5, 8>> => confidence = 65)

(* C4: for every label, calculate_expected_effectiveness returns the       *)
(* maximum of 70 and the table scores of the keys that occur in the label  *)
(* as substrings: 70 if none occurs, never less than 70, and 90 for a      *)
(* label that contains both 系统学习 and 定制方案.                         *)
Occurs(key, label) ==
    \E i \in 0..Len(label) : \E j \in i..Len(label) : SubSeq(label, i + 1, j) = key

MatchingScores(label) ==
    {70} \cup {effectiveness_scores[i].score :
                  i \in {n \in DOMAIN effectiveness_scores :
                            Occurs(effectiveness_scores[n].key, label)}}

C4_EffectivenessIsMaxOfMatches ==
    pc = "looked-up" =>
        /\ effectiveness \in MatchingScores(recommendation)
        /\ \A v \in MatchingScores(recommendation) : effectiveness >= v
        /\ effectiveness >= 70
        /\ (MatchingScores(recommendation) = {70}) => effectiveness = 70
        /\ (Occurs(XiTongXueXi, recommendation) /\ Occurs(DingZhiFangAn, recommendation))
              => effectiveness = 90

C4_Witness ==
    /\ pc = "looked-up"
    /\ recommendation = DingZhiFangAn \o Separator \o XiTongXueXi
    /\ effectiveness = 90

(* C5: for every budget, exactly one budget tag and score is selected:     *)
(* 免费资源 with 0.5 below 300, 付费课程 with 0.7 from 300 to below 1000,  *)
(* 定制方案 with 0.9 from 1000; budget 300 selects 付费课程 and budget     *)
(* 1000 selects 定制方案.                                                  *)
C5_BudgetRule ==
    (Returned /\ learning_style \in Styles) =>
        /\ budget < 300 =>
              BudgetTagOf(recommendation) = MianFeiZiYuan /\ scores[3] = 5
        /\ (budget >= 300 /\ budget < 1000) =>
              BudgetTagOf(recommendation) = FuFeiKeCheng /\ scores[3] = 7
        /\ budget >= 1000 =>
              BudgetTagOf(recommendation) = DingZhiFangAn /\ scores[3] = 9
        /\ reasoning[3].factor = "budget"

C5_Witness ==
    /\ Returned
    /\ budget = 300
    /\ BudgetTagOf(recommendation) = FuFeiKeCheng
    /\ scores[3] = 7

(* C6: the recommendation is "<base> + <knowledge tag> + <budget tag>",    *)
(* where base is 强化训练 whenever urgency is 紧急 and otherwise the       *)
(* method of the time value; the urgency never changes the other two tags. *)
C6_Base ==
    IF urgency = "urgent" THEN QiangHuaXunLian
    ELSE IF time_available \in {"lt1h", "1-2h"} THEN WeiXueXi
    ELSE XiTongXueXi

C6_KnowledgeTag ==
    IF knowledge_level \in {"none", "beginner"} THEN FenCengJiaoXue ELSE XiangMuShiJian

C6_BudgetTag ==
    IF budget < 300 THEN MianFeiZiYuan
    ELSE IF budget < 1000 THEN FuFeiKeCheng
    ELSE DingZhiFangAn

C6_Label ==
    (Returned /\ learning_style \in Styles) =>
        recommendation =
            C6_Base \o <<" ", "+", " ">> \o C6_KnowledgeTag \o <<" ", "+", " ">> \o C6_BudgetTag

C6_Witness ==
    /\ Returned
    /\ urgency = "urgent"
    /\ time_available = "gt4h"
    /\ SubSeq(recommendation, 1, 4) = QiangHuaXunLian
    /\ BudgetTagOf(recommendation) = DingZhiFangAn

(* C7: the reasoning holds one explanation for each of the five factors,   *)
(* in the order time, knowledge, budget, style, urgency, whatever the      *)
(* urgency.                                                                *)
C7_FiveExplanations ==
    (Returned /\ learning_style \in Styles) =>
        /\ Len(reasoning) = 5
        /\ FactorsOf(reasoning) = <<"time", "knowledge", "budget", "style", "urgency">>

(* C8: the confidence is monotone in each factor's score: when the run     *)
(* before differs from this one in one of time, level, budget, urgency and *)
(* the score of that factor is higher now, the confidence is at least what *)
(* it was (and at most what it was when the score is lower now).           *)
TimeScore(t) == IF t \in {"lt1h", "1-2h"} THEN 7 ELSE 9

LevelScore(l) == IF l \in {"none", "beginner"} THEN 6 ELSE 8

BudgetScore(b) == IF b < 300 THEN 5 ELSE IF b < 1000 THEN 7 ELSE 9

UrgencyScore(u) == IF u = "urgent" THEN 8 ELSE 6

FactorScores(t, l, b, u) == <<TimeScore(t), LevelScore(l), BudgetScore(b), UrgencyScore(u)>>

ScoresNow == FactorScores(time_available, knowledge_level, budget, urgency)

ScoresBefore ==
    FactorScores(prev[1].time_available, prev[1].knowledge_level, prev[1].budget,
                 prev[1].urgency)

C8_Monotone ==
    (Analyzed /\ prev # <<>>) =>
        /\ (\A i \in 1..4 : ScoresNow[i] >= ScoresBefore[i])
              => confidence >= prev[1].confidence
        /\ (\A i \in 1..4 : ScoresNow[i] <= ScoresBefore[i])
              => confidence <= prev[1].confidence

C8_Witness ==
    /\ Analyzed
    /\ prev # <<>>
    /\ prev[1].urgency = "relaxed" /\ urgency = "urgent"
    /\ prev[1].time_available = "gt4h" /\ prev[1].budget >= 1000
    /\ prev[1].knowledge_level = "advanced"
    /\ confidence > prev[1].confidence

(* C9: the style does not influence the recommendation or the confidence:  *)
(* two runs that agree on time, level, budget and urgency return the same  *)
(* label and the same confidence; only the style entry of the reasoning    *)
(* may differ, and four scores are collected.                              *)
SameButStyle ==
    /\ prev # <<>>
    /\ prev[1].time_available = time_available
    /\ prev[1].knowledge_level = knowledge_level
    /\ prev[1].budget = budget
    /\ prev[1].urgency = urgency

C9_StyleHasNoInfluence ==
    (Analyzed /\ SameButStyle) =>
        /\ recommendation = prev[1].recommendation
        /\ confidence = prev[1].confidence
        /\ Len(scores) = 4
        /\ scores = prev[1].scores
        /\ Len(reasoning) = Len(prev[1].reasoning)
        /\ \A i \in 1..Len(reasoning) :
              reasoning[i].factor # "style" => reasoning[i] = prev[1].reasoning[i]

C9_Witness ==
    /\ Analyzed
    /\ SameButStyle
    /\ prev[1].learning_style = "visual"
    /\ learning_style = "reading"
    /\ reasoning[4] # prev[1].reasoning[4]
    /\ recommendation = prev[1].recommendation

(* C10: applied to the label analyze_learning_path produced, the lookup    *)
(* never gives its default: the value is 90 exactly when urgency is 紧急   *)
(* or budget >= 1000, otherwise 85 exactly when time is 2-4小时/4小时以上  *)
(* or level is 中级/高级, and 80 in the remaining cases.                   *)
C10_EffectivenessOfRecommendation ==
    pc \in {"report", "shown"} =>
        effectiveness =
            IF urgency = "urgent" \/ budget >= 1000 THEN 90
            ELSE IF time_available \in {"2-4h", "gt4h"}
                    \/ knowledge_level \in {"intermediate", "advanced"} THEN 85
            ELSE 80

C10_Witness ==
    /\ pc = "shown"
    /\ urgency = "moderate" /\ budget = 999
    /\ time_available = "1-2h" /\ knowledge_level = "beginner"
    /\ effectiveness = 80

====
